---- MODULE Spec2Model ----
(***************************************************************************)
(* ModelGenerator.import_from_openstreet_map (src/modelgen.py) as a state  *)
(* machine.  One caller repeatedly calls the method; each provider call,   *)
(* the opening of the descriptor file and json.dump are one step each and  *)
(* each of them either completes or raises.  The descriptor files and the  *)
(* files the providers write persist from one call to the next.            *)
(*                                                                         *)
(* Python values: a dict literal with fixed keys is a record, a dict that  *)
(* is filled key by key (parts_dict) is the sequence of its <<key, value>> *)
(* pairs in insertion order, a JSON document is the sequence of the        *)
(* <<key, value>> pairs json.dump emits.  terrain_radius * 0.8 is kept     *)
(* exact as a fraction [num, den].                                         *)
(***************************************************************************)
EXTENDS Integers, Sequences, FiniteSets, TLC

VARIABLES
    inputs,        \* which set of argument records the caller draws from
    pc,            \* where the caller is in import_from_openstreet_map
    args,          \* the arguments of the call in progress
    terrain_mesh,  \* local: terrain_geo["mesh"]
    parts_dict,    \* local: the parts registry
    trace,         \* the provider calls of the call in progress, in order
    files,         \* the descriptor files on disk: path -> content
    stl_files,     \* the files the providers have written
    result,        \* what the call handed to its caller
    written,       \* the documents json.dump completed in this call, in order
    files0,        \* files when the call in progress started
    stl0,          \* stl_files when the call in progress started
    last,          \* per env_name, the outcome of the latest finished call
    prev,          \* the latest finished call that returned
    calls          \* the calls started so far

vars == <<inputs, pc, args, terrain_mesh, parts_dict, trace, files, stl_files,
          result, written, files0, stl0, last, prev, calls>>

----------------------------------------------------------------------------
(* Bounds *)

MaxCalls == 2      \* calls the caller makes in one run

----------------------------------------------------------------------------
(* The signature, its defaults, and the arguments the caller draws from *)

Defaults ==
    [latitude_longitude |-> <<40, -74>>,
     env_name |-> "default",
     terrain_radius |-> 500,
     include_osm_buildings |-> TRUE,
     including_osm_roads |-> TRUE,
     include_osm_trees |-> TRUE,
     import_in_aedt |-> FALSE,
     plot_before_importing |-> FALSE,
     z_offset |-> 2,
     road_step |-> 3,
     road_width |-> 8,
     create_lightweigth_part |-> TRUE,
     save_nodes |-> FALSE]

\* two sites: the default one and a second name, anchor and radius
Sites ==
    {[env_name |-> "default", latitude_longitude |-> <<40, -74>>,
      terrain_radius |-> 500],
     [env_name |-> "town_a", latitude_longitude |-> <<48, 2>>,
      terrain_radius |-> 3]}

EnvNames == {s.env_name : s \in Sites}

\* either site with every combination of the three inclusion flags
InputsSites ==
    {[Defaults EXCEPT !.env_name = s.env_name,
                      !.latitude_longitude = s.latitude_longitude,
                      !.terrain_radius = s.terrain_radius,
                      !.include_osm_buildings = b,
                      !.include_osm_trees = t,
                      !.including_osm_roads = r] :
        s \in Sites, b \in BOOLEAN, t \in BOOLEAN, r \in BOOLEAN}

\* the default site with every combination of the output-mode arguments, two
\* settings of the road options, with and without roads
RoadOptions ==
    {[z_offset |-> 2, road_step |-> 3, road_width |-> 8, save_nodes |-> FALSE],
     [z_offset |-> 0, road_step |-> 1, road_width |-> 4, save_nodes |-> TRUE]}

InputsOptions ==
    {[Defaults EXCEPT !.including_osm_roads = r,
                      !.import_in_aedt = i,
                      !.plot_before_importing = p,
                      !.create_lightweigth_part = c,
                      !.z_offset = o.z_offset,
                      !.road_step = o.road_step,
                      !.road_width = o.road_width,
                      !.save_nodes = o.save_nodes] :
        r \in BOOLEAN, i \in BOOLEAN, p \in BOOLEAN, c \in BOOLEAN,
        o \in RoadOptions}

\* the argument records of a run, by the name of the set
InputsOf(which) == IF which = "options" THEN InputsOptions ELSE InputsSites

output_path == "."

NoArgs == <<>>
NoMesh == "None"
NoResult == [file_name |-> "", mesh |-> ""]
\* what a call hands to its caller: the scene, or the exception and the
\* statement that raised it
NoOutcome == [kind |-> "none", value |-> <<>>, at |-> ""]
Returned(scene) == [kind |-> "returned", value |-> scene, at |-> ""]
Raised(at) == [kind |-> "raised", value |-> <<>>, at |-> at]
NoCall == [kind |-> "none"]

----------------------------------------------------------------------------
(* The providers (package osm, external): what a call can return *)

Providers == <<"terrain", "buildings", "trees", "roads">>

Results(p) ==
    IF p = "terrain"
    THEN {[file_name |-> "terrain_a.stl", mesh |-> "terrain_mesh_a"],
          [file_name |-> "terrain_b.stl", mesh |-> "terrain_mesh_b"]}
    ELSE {[file_name |-> p \o ".stl", mesh |-> p \o "_mesh"]}

----------------------------------------------------------------------------
(* Python values *)

\* d[k] = v on an insertion-ordered dict
DictSet(d, k, v) ==
    IF \E i \in 1..Len(d) : d[i][1] = k
    THEN [i \in 1..Len(d) |-> IF d[i][1] = k THEN <<k, v>> ELSE d[i]]
    ELSE Append(d, <<k, v>>)

\* numbers handed to the providers, exact: n and x * 0.8
Number(n) == [num |-> n, den |-> 1]

Times08(x) == [num |-> x.num * 8, den |-> x.den * 10]

\* variant: the descriptor always goes to the default name
JsonPathFixed(n) == output_path \o "/" \o "default" \o ".json"

\* os.path.join(output_path, env_name + ".json")
JsonPath(n) == output_path \o "/" \o n \o ".json"

Paths == {JsonPath(n) : n \in EnvNames}

Absent == [kind |-> "absent", data |-> <<>>]
\* open(json_path, "w") creates the file or cuts it to length 0
Truncated == [kind |-> "partial", data |-> <<>>]

----------------------------------------------------------------------------
(* What import_from_openstreet_map computes *)

\* variant: the trees stage tests the buildings flag
IncludedTreesFollowBuildings(p, a) ==
    CASE p = "terrain" -> TRUE
      [] p = "buildings" -> a.include_osm_buildings
      [] p = "trees" -> a.include_osm_buildings
      [] p = "roads" -> a.including_osm_roads

\* the if statements of lines 89, 100 and 111; terrain is unconditional
Included(p, a) ==
    CASE p = "terrain" -> TRUE
      [] p = "buildings" -> a.include_osm_buildings
      [] p = "trees" -> a.include_osm_trees
      [] p = "roads" -> a.including_osm_roads

\* the statement control reaches once stage number i is over: the next
\* included provider in the order of the source, then the descriptor
RECURSIVE StageAfter(_, _)
StageAfter(i, a) ==
    IF i >= Len(Providers) THEN "open"
    ELSE IF Included(Providers[i + 1], a) THEN Providers[i + 1]
    ELSE StageAfter(i + 1, a)

StageNo(p) == CHOOSE i \in 1..Len(Providers) : Providers[i] = p

\* variant: the roads are cut to 0.8 of the radius like the buildings
MaxRadiusForAllScaled(p, a) ==
    CASE p = "terrain" -> Number(a.terrain_radius)
      [] p = "buildings" -> Times08(Number(a.terrain_radius))
      [] p = "trees" -> Times08(Number(a.terrain_radius))
      [] p = "roads" -> Times08(Number(a.terrain_radius))

\* max_radius=... of each provider call
MaxRadiusFor(p, a) ==
    CASE p = "terrain" -> Number(a.terrain_radius)
      [] p = "buildings" -> Times08(Number(a.terrain_radius))
      [] p = "trees" -> Times08(Number(a.terrain_radius))
      [] p = "roads" -> Number(a.terrain_radius)

\* variant: save_nodes is given the value of create_lightweigth_part
KwargsForWrongVariable(p, a) ==
    CASE p = "terrain" -> << <<"grid_size", 30>> >>
      [] p = "buildings" -> <<>>
      [] p = "trees" -> <<>>
      [] p = "roads" -> << <<"z_offset", a.z_offset>>,
                           <<"road_step", a.road_step>>,
                           <<"road_width", a.road_width>>,
                           <<"save_nodes", a.create_lightweigth_part>> >>

\* the other keyword arguments of each provider call
KwargsFor(p, a) ==
    CASE p = "terrain" -> << <<"grid_size", 30>> >>
      [] p = "buildings" -> <<>>
      [] p = "trees" -> <<>>
      [] p = "roads" -> << <<"z_offset", a.z_offset>>,
                           <<"road_step", a.road_step>>,
                           <<"road_width", a.road_width>>,
                           <<"save_nodes", a.save_nodes>> >>

\* variant: the roads are given road_mesh, which is still None (line 88)
MeshForRoadMesh(p, mesh) ==
    IF p \in {"terrain", "roads"} THEN NoMesh ELSE mesh

\* the mesh handed to each provider call
MeshFor(p, mesh) == IF p = "terrain" THEN NoMesh ELSE mesh

\* the part descriptor of each category
PartOf(p, file_name) ==
    CASE p = "terrain" ->
            [file_name |-> file_name, color |-> "brown", material |-> "earth"]
      [] p = "buildings" ->
            [file_name |-> file_name, color |-> "grey", material |-> "concrete"]
      [] p = "trees" ->
            [file_name |-> file_name, color |-> "green", material |-> "wood"]
      [] p = "roads" ->
            [file_name |-> file_name, color |-> "black", material |-> "asphalt"]

\* variant: include_roads and include_trees take each other's argument
SceneFlagsSwapped(a, parts) ==
    [name |-> a.env_name,
     version |-> 1,
     type |-> "environment",
     center_lat_lon |-> a.latitude_longitude,
     radius |-> a.terrain_radius,
     include_buildings |-> a.include_osm_buildings,
     include_roads |-> a.include_osm_trees,
     include_trees |-> a.including_osm_roads,
     parts |-> parts]

\* scene = {...}
Scene(a, parts) ==
    [name |-> a.env_name,
     version |-> 1,
     type |-> "environment",
     center_lat_lon |-> a.latitude_longitude,
     radius |-> a.terrain_radius,
     include_buildings |-> a.include_osm_buildings,
     include_roads |-> a.including_osm_roads,
     include_trees |-> a.include_osm_trees,
     parts |-> parts]

\* json.dump: the members of each object in the order of the dict
JsonPart(part) ==
    << <<"file_name", part.file_name>>,
       <<"color", part.color>>,
       <<"material", part.material>> >>

\* variant: the parts are serialized as an empty object
JsonDumpNoParts(scene) ==
    << <<"name", scene.name>>,
       <<"version", scene.version>>,
       <<"type", scene.type>>,
       <<"center_lat_lon", scene.center_lat_lon>>,
       <<"radius", scene.radius>>,
       <<"include_buildings", scene.include_buildings>>,
       <<"include_roads", scene.include_roads>>,
       <<"include_trees", scene.include_trees>>,
       <<"parts", <<>> >> >>

JsonDump(scene) ==
    << <<"name", scene.name>>,
       <<"version", scene.version>>,
       <<"type", scene.type>>,
       <<"center_lat_lon", scene.center_lat_lon>>,
       <<"radius", scene.radius>>,
       <<"include_buildings", scene.include_buildings>>,
       <<"include_roads", scene.include_roads>>,
       <<"include_trees", scene.include_trees>>,
       <<"parts", [i \in 1..Len(scene.parts) |->
                     <<scene.parts[i][1], JsonPart(scene.parts[i][2])>>]>> >>

\* the provider call as the provider sees it, and how it ended
Call(p, a, mesh, outcome, r) ==
    [provider |-> p,
     latitude_longitude |-> a.latitude_longitude,
     terrain_mesh |-> MeshFor(p, mesh),
     max_radius |-> MaxRadiusFor(p, a),
     kwargs |-> KwargsFor(p, a),
     outcome |-> outcome,
     result |-> r]

----------------------------------------------------------------------------
(* The steps of a call *)

\* the caller calls import_from_openstreet_map(a); parts_dict = {}
Start ==
    /\ pc = "idle"
    /\ calls < MaxCalls
    /\ \E a \in InputsOf(inputs) :
          /\ args' = a
          /\ pc' = "terrain"
    /\ calls' = calls + 1
    /\ parts_dict' = <<>>
    /\ terrain_mesh' = NoMesh
    /\ trace' = <<>>
    /\ written' = <<>>
    /\ result' = NoOutcome
    /\ files0' = files
    /\ stl0' = stl_files
    /\ UNCHANGED <<inputs, files, stl_files, last, prev>>

\* provider p returns r: its file is on disk, its part enters the registry
ProviderReturns(p) ==
    /\ pc = p
    /\ \E r \in Results(p) :
          /\ trace' = Append(trace, Call(p, args, terrain_mesh, "returned", r))
          /\ stl_files' = stl_files \cup {r.file_name}
          /\ terrain_mesh' = IF p = "terrain" THEN r.mesh ELSE terrain_mesh
          /\ parts_dict' = DictSet(parts_dict, p, PartOf(p, r.file_name))
    /\ pc' = StageAfter(StageNo(p), args)
    /\ UNCHANGED <<inputs, args, files, result, written, files0, stl0, last,
                   prev, calls>>

\* variant: the exception is caught and the call goes on without the part
ProviderRaisesSwallowed(p) ==
    /\ pc = p
    /\ trace' = Append(trace, Call(p, args, terrain_mesh, "raised", NoResult))
    /\ pc' = StageAfter(StageNo(p), args)
    /\ UNCHANGED <<inputs, args, terrain_mesh, parts_dict, files, stl_files,
                   result, written, files0, stl0, last, prev, calls>>

\* variant: a provider that raised is called a second time
ProviderRaisesRetried(p) ==
    /\ pc = p
    /\ trace' = Append(trace, Call(p, args, terrain_mesh, "raised", NoResult))
    /\ IF trace # <<>> /\ trace[Len(trace)].provider = p
       THEN pc' = "raised" /\ result' = Raised(p)
       ELSE pc' = p /\ result' = result
    /\ UNCHANGED <<inputs, args, terrain_mesh, parts_dict, files, stl_files,
                   written, files0, stl0, last, prev, calls>>

\* the stage of provider p raises (its constructor, its call or the reading
\* of its result): nothing catches it, the part does not enter the registry
ProviderRaises(p) ==
    /\ pc = p
    /\ trace' = Append(trace, Call(p, args, terrain_mesh, "raised", NoResult))
    /\ pc' = "raised"
    /\ result' = Raised(p)
    /\ UNCHANGED <<inputs, args, terrain_mesh, parts_dict, files, stl_files,
                   written, files0, stl0, last, prev, calls>>

get_terrain == ProviderReturns("terrain") \/ ProviderRaises("terrain")

generate_buildings == ProviderReturns("buildings") \/ ProviderRaises("buildings")

generate_trees == ProviderReturns("trees") \/ ProviderRaises("trees")

create_roads == ProviderReturns("roads") \/ ProviderRaises("roads")

\* open(json_path, "w", encoding="utf-8"): the file exists and is empty
OpenReturns ==
    /\ pc = "open"
    /\ files' = [files EXCEPT ![JsonPath(args.env_name)] = Truncated]
    /\ pc' = "dump"
    /\ UNCHANGED <<inputs, args, terrain_mesh, parts_dict, trace, stl_files,
                   result, written, files0, stl0, last, prev, calls>>

\* variant: the file is cut to length 0 before the failure shows
OpenRaisesTruncating ==
    /\ pc = "open"
    /\ files' = [files EXCEPT ![JsonPath(args.env_name)] = Truncated]
    /\ pc' = "raised"
    /\ result' = Raised("open")
    /\ UNCHANGED <<inputs, args, terrain_mesh, parts_dict, trace, stl_files,
                   written, files0, stl0, last, prev, calls>>

\* open raises OSError: the file system is as it was
OpenRaises ==
    /\ pc = "open"
    /\ pc' = "raised"
    /\ result' = Raised("open")
    /\ UNCHANGED <<inputs, args, terrain_mesh, parts_dict, trace, files,
                   stl_files, written, files0, stl0, last, prev, calls>>

\* json.dump(scene, f, indent=4), the file is closed, return scene
DumpReturns ==
    /\ pc = "dump"
    /\ files' = [files EXCEPT ![JsonPath(args.env_name)] =
                    [kind |-> "json", data |-> JsonDump(Scene(args, parts_dict))]]
    /\ written' = Append(written, JsonDump(Scene(args, parts_dict)))
    /\ result' = Returned(Scene(args, parts_dict))
    /\ pc' = "returned"
    /\ UNCHANGED <<inputs, args, terrain_mesh, parts_dict, trace, stl_files,
                   files0, stl0, last, prev, calls>>

\* json.dump or the closing of the file raises: the file holds what was
\* written until then, a proper prefix of the document (its bytes are not
\* modelled: no proper prefix of a JSON object is a JSON object)
DumpRaises ==
    /\ pc = "dump"
    /\ files' = [files EXCEPT ![JsonPath(args.env_name)] =
                    [kind |-> "partial", data |-> <<>>]]
    /\ pc' = "raised"
    /\ result' = Raised("dump")
    /\ UNCHANGED <<inputs, args, terrain_mesh, parts_dict, trace, stl_files,
                   written, files0, stl0, last, prev, calls>>

\* the caller has the scene or the exception; the locals are gone
Finish ==
    /\ pc \in {"returned", "raised"}
    /\ pc' = "idle"
    /\ last' = [last EXCEPT ![args.env_name] = result]
    /\ prev' = IF pc = "returned"
               THEN [kind |-> "call", args |-> args, trace |-> trace,
                     written |-> written, value |-> result.value]
               ELSE prev
    /\ args' = NoArgs
    /\ terrain_mesh' = NoMesh
    /\ parts_dict' = <<>>
    /\ trace' = <<>>
    /\ written' = <<>>
    /\ result' = NoOutcome
    /\ files0' = files
    /\ stl0' = stl_files
    /\ UNCHANGED <<inputs, files, stl_files, calls>>

InitWith(which) ==
    /\ inputs = which
    /\ pc = "idle"
    /\ args = NoArgs
    /\ terrain_mesh = NoMesh
    /\ parts_dict = <<>>
    /\ trace = <<>>
    /\ files = [p \in Paths |-> Absent]
    /\ stl_files = {}
    /\ result = NoOutcome
    /\ written = <<>>
    /\ files0 = [p \in Paths |-> Absent]
    /\ stl0 = {}
    /\ last = [n \in EnvNames |-> NoOutcome]
    /\ prev = NoCall
    /\ calls = 0

Init == InitWith("sites")

InitOptions == InitWith("options")

Next ==
    \/ Start
    \/ get_terrain
    \/ generate_buildings
    \/ generate_trees
    \/ create_roads
    \/ OpenReturns
    \/ OpenRaises
    \/ DumpReturns
    \/ DumpRaises
    \/ Finish

Spec == Init /\ [][Next]_vars

SpecOptions == InitOptions /\ [][Next]_vars

----------------------------------------------------------------------------
(* Vocabulary of the properties *)

\* the keys of an insertion-ordered dict or of a JSON object, and d[k]
DictKeys(d) == {d[i][1] : i \in 1..Len(d)}

DictGet(d, k) == d[CHOOSE i \in 1..Len(d) : d[i][1] = k][2]

\* json.load: the document as the dict it was dumped from
JsonLoadPart(members) ==
    [file_name |-> DictGet(members, "file_name"),
     color |-> DictGet(members, "color"),
     material |-> DictGet(members, "material")]

JsonLoad(doc) ==
    [name |-> DictGet(doc, "name"),
     version |-> DictGet(doc, "version"),
     type |-> DictGet(doc, "type"),
     center_lat_lon |-> DictGet(doc, "center_lat_lon"),
     radius |-> DictGet(doc, "radius"),
     include_buildings |-> DictGet(doc, "include_buildings"),
     include_roads |-> DictGet(doc, "include_roads"),
     include_trees |-> DictGet(doc, "include_trees"),
     parts |-> LET ps == DictGet(doc, "parts")
               IN  [i \in 1..Len(ps) |-> <<ps[i][1], JsonLoadPart(ps[i][2])>>]]

\* the providers a call with arguments a has to call, in the fixed order
Wanted(p, a) ==
    \/ p = "terrain"
    \/ p = "buildings" /\ a.include_osm_buildings
    \/ p = "trees" /\ a.include_osm_trees
    \/ p = "roads" /\ a.including_osm_roads

Expected(a) ==
    LET Test(p) == Wanted(p, a)
    IN  SelectSeq(<<"terrain", "buildings", "trees", "roads">>, Test)

\* every provider call the arguments ask for has been made and has returned
AllReturned ==
    /\ Len(trace) = Len(Expected(args))
    /\ \A i \in 1..Len(trace) : trace[i].outcome = "returned"

\* the descriptor file of the call in progress
OwnPath == JsonPath(args.env_name)

RoadKeys == {"z_offset", "road_step", "road_width", "save_nodes"}

ModeKeys == {"import_in_aedt", "plot_before_importing", "create_lightweigth_part"}

\* two argument records that agree outside the fields named in ks
AgreeOutside(a, b, ks) == \A k \in (DOMAIN a) \ ks : a[k] = b[k]

ResultsOf(t) == [i \in 1..Len(t) |-> t[i].result]

NotRoads(t) ==
    LET Test(c) == c.provider # "roads"
    IN  SelectSeq(t, Test)

----------------------------------------------------------------------------
(* C1: when a call returns, the parts registry of the returned descriptor   *)
(* has the key "terrain", has "buildings", "trees" and "roads" each exactly *)
(* when its flag was true, and has no other key and no key twice; with all  *)
(* three flags false it has one entry.                                      *)
C1_PartsRegistryKeys ==
    pc = "returned" =>
        LET parts == result.value.parts
            keys == DictKeys(parts)
        IN  /\ "terrain" \in keys
            /\ ("buildings" \in keys) <=> args.include_osm_buildings
            /\ ("trees" \in keys) <=> args.include_osm_trees
            /\ ("roads" \in keys) <=> args.including_osm_roads
            /\ keys \subseteq {"terrain", "buildings", "trees", "roads"}
            /\ Len(parts) = Cardinality(keys)
            /\ (/\ ~args.include_osm_buildings
                /\ ~args.include_osm_trees
                /\ ~args.including_osm_roads) => Len(parts) = 1

C1_Witness ==
    /\ pc = "returned"
    /\ args.include_osm_buildings
    /\ ~args.include_osm_trees
    /\ args.including_osm_roads
    /\ DictKeys(result.value.parts) = {"terrain", "buildings", "roads"}

(* C2: if the terrain call raises, the call is over with that exception:    *)
(* no other provider was called, json.dump ran for no document and the      *)
(* descriptor files are what they were when the call started.               *)
C2_TerrainFailure ==
    (/\ trace # <<>>
     /\ trace[1].provider = "terrain"
     /\ trace[1].outcome = "raised") =>
        /\ pc = "raised"
        /\ result = Raised("terrain")
        /\ Len(trace) = 1
        /\ written = <<>>
        /\ files = files0

C2_Witness ==
    /\ pc = "raised"
    /\ Len(trace) = 1
    /\ trace[1].provider = "terrain"
    /\ trace[1].outcome = "raised"
    /\ args.include_osm_buildings

(* C3: if a provider call after terrain raises, it is the last provider     *)
(* call of the invocation (no retry, no later provider), the invocation is  *)
(* over with that exception, json.dump ran for no document, the descriptor  *)
(* files are what they were, and the file of every provider that returned   *)
(* before, like every provider file of earlier invocations, is on disk.     *)
C3_LaterFailure ==
    \A i \in 2..Len(trace) :
        trace[i].outcome = "raised" =>
            /\ i = Len(trace)
            /\ pc = "raised"
            /\ result = Raised(trace[i].provider)
            /\ written = <<>>
            /\ files = files0
            /\ \A j \in 1..(i - 1) :
                  /\ trace[j].outcome = "returned"
                  /\ trace[j].provider # trace[i].provider
                  /\ trace[j].result.file_name \in stl_files
            /\ stl0 \subseteq stl_files

C3_Witness ==
    /\ pc = "raised"
    /\ Len(trace) = 3
    /\ trace[2].provider = "buildings"
    /\ trace[3].provider = "trees"
    /\ trace[3].outcome = "raised"
    /\ args.including_osm_roads
    /\ {trace[1].result.file_name, "buildings.stl"} \subseteq stl_files

(* C4: at every point of an invocation the provider calls made so far are a *)
(* prefix of terrain, buildings, trees, roads restricted to the enabled     *)
(* ones (so each is called at most once, terrain first, a disabled one      *)
(* never), every call but the last has returned, every call after the first *)
(* was given the mesh the terrain call returned, and once control is past   *)
(* the providers every enabled one has been called and has returned.        *)
C4_ProviderOrder ==
    pc # "idle" =>
        LET exp == Expected(args)
        IN  /\ Len(trace) <= Len(exp)
            /\ \A i \in 1..Len(trace) : trace[i].provider = exp[i]
            /\ \A i \in 1..(Len(trace) - 1) : trace[i].outcome = "returned"
            /\ \A i \in 2..Len(trace) :
                  trace[i].terrain_mesh = trace[1].result.mesh
            /\ pc \in {"terrain", "buildings", "trees", "roads"} =>
                  /\ Len(trace) < Len(exp)
                  /\ pc = exp[Len(trace) + 1]
            /\ pc \in {"open", "dump", "returned"} => AllReturned

C4_Witness ==
    /\ pc = "returned"
    /\ Len(trace) = 3
    /\ trace[2].provider = "trees"
    /\ trace[3].provider = "roads"
    /\ trace[1].result.mesh = "terrain_mesh_b"
    /\ trace[3].terrain_mesh = "terrain_mesh_b"

(* C5: json.dump completes at most once in an invocation; a descriptor file *)
(* differs from what it was at the start only when every enabled provider   *)
(* has returned; and when the invocation returns, json.dump completed once, *)
(* the file holds that document, and the document read back is the          *)
(* returned descriptor.                                                     *)
C5_WrittenOnceAndReturned ==
    /\ Len(written) <= 1
    /\ pc # "idle" /\ (written # <<>> \/ files # files0) => AllReturned
    /\ pc = "returned" =>
          /\ Len(written) = 1
          /\ files[OwnPath] = [kind |-> "json", data |-> written[1]]
          /\ JsonLoad(written[1]) = result.value

C5_Witness ==
    /\ pc = "returned"
    /\ Len(trace) = 4
    /\ Len(written) = 1
    /\ Len(result.value.parts) = 4
    /\ JsonLoad(files[OwnPath].data) = result.value

(* C6: the descriptor file of an invocation that returned has               *)
(* center_lat_lon = latitude_longitude, radius = terrain_radius, the three  *)
(* include_ fields = the three inclusion flags, name = env_name,            *)
(* version = 1 and type = "environment".                                    *)
C6_DescriptorEchoesArguments ==
    pc = "returned" =>
        /\ files[OwnPath].kind = "json"
        /\ LET doc == files[OwnPath].data
           IN  /\ DictGet(doc, "center_lat_lon") = args.latitude_longitude
               /\ DictGet(doc, "radius") = args.terrain_radius
               /\ DictGet(doc, "include_buildings") = args.include_osm_buildings
               /\ DictGet(doc, "include_roads") = args.including_osm_roads
               /\ DictGet(doc, "include_trees") = args.include_osm_trees
               /\ DictGet(doc, "name") = args.env_name
               /\ DictGet(doc, "version") = 1
               /\ DictGet(doc, "type") = "environment"

C6_Witness ==
    /\ pc = "returned"
    /\ args.env_name = "town_a"
    /\ args.terrain_radius = 3
    /\ args.including_osm_roads
    /\ ~args.include_osm_trees
    /\ files[OwnPath].kind = "json"
    /\ DictGet(files[OwnPath].data, "center_lat_lon") = <<48, 2>>

(* C7: an invocation that returns has put its descriptor in                 *)
(* <output_path>/<env_name>.json and left the other descriptor files as     *)
(* they were; between invocations, the file of a name whose latest          *)
(* invocation returned holds that invocation's descriptor, a name never     *)
(* used has no file, distinct names have distinct files, and as long as no  *)
(* invocation has raised the files present are those of the names used.     *)
C7_OneFilePerName ==
    /\ \A n, m \in EnvNames : JsonPath(n) = JsonPath(m) => n = m
    /\ pc = "returned" =>
          /\ OwnPath = "./" \o args.env_name \o ".json"
          /\ files[OwnPath].kind = "json"
          /\ JsonLoad(files[OwnPath].data) = result.value
          /\ \A q \in DOMAIN files : q # OwnPath => files[q] = files0[q]
    /\ pc = "idle" =>
          /\ \A n \in EnvNames :
                /\ last[n].kind = "returned" =>
                      /\ files[JsonPath(n)].kind = "json"
                      /\ JsonLoad(files[JsonPath(n)].data) = last[n].value
                /\ last[n].kind = "none" => files[JsonPath(n)] = Absent
          /\ (\A n \in EnvNames : last[n].kind # "raised") =>
                {q \in DOMAIN files : files[q].kind # "absent"}
                    = {JsonPath(n) : n \in {m \in EnvNames : last[m].kind = "returned"}}

C7_Witness ==
    /\ pc = "returned"
    /\ args.env_name = "town_a"
    /\ last["town_a"].kind = "returned"
    /\ last["default"].kind = "none"
    /\ files0[OwnPath].kind = "json"
    /\ files0[OwnPath] # files[OwnPath]
    /\ JsonLoad(files[OwnPath].data) = result.value

(* C8: every buildings and trees call is given max_radius = 0.8 times       *)
(* terrain_radius, every terrain and roads call terrain_radius itself.      *)
C8_ProviderRadii ==
    \A i \in 1..Len(trace) :
        LET c == trace[i]
        IN  /\ c.provider \in {"buildings", "trees"} =>
                  10 * c.max_radius.num = 8 * args.terrain_radius * c.max_radius.den
            /\ c.provider \in {"terrain", "roads"} =>
                  c.max_radius = [num |-> args.terrain_radius, den |-> 1]

C8_Witness ==
    /\ pc = "returned"
    /\ args.terrain_radius = 3
    /\ Len(trace) = 4
    /\ trace[2].max_radius = [num |-> 24, den |-> 10]
    /\ trace[3].max_radius = [num |-> 24, den |-> 10]
    /\ trace[4].max_radius = [num |-> 3, den |-> 1]

(* C9 as stated: an invocation that ends in a failure, wherever it raised,  *)
(* leaves a descriptor file <env_name>.json of an earlier invocation as it  *)
(* was.                                                                     *)
C9_FailureKeepsDescriptor ==
    (pc = "raised" /\ files0[OwnPath].kind = "json") =>
        files[OwnPath] = files0[OwnPath]

(* C9 amended: an invocation that a provider or the opening of the file     *)
(* ends leaves every descriptor file as it was; one that ends while the     *)
(* document is being written, the file being open, leaves the other         *)
(* descriptor files as they were and its own cut short, no longer a         *)
(* descriptor.                                                              *)
C9_FailureKeepsDescriptorUnlessOpened ==
    pc = "raised" =>
        /\ result.kind = "raised"
        /\ result.at # "dump" => files = files0
        /\ result.at = "dump" =>
              /\ files[OwnPath].kind = "partial"
              /\ \A q \in DOMAIN files : q # OwnPath => files[q] = files0[q]

C9_Witness ==
    /\ pc = "raised"
    /\ result.at = "dump"
    /\ files0[OwnPath].kind = "json"
    /\ files[OwnPath].kind = "partial"
    /\ files[OwnPath] # files0[OwnPath]

====
